---------------------------- MODULE Spec2Model ----------------------------
(***************************************************************************)
(* A model of PageAccessController (notion-mcp-server): the root set, the  *)
(* resolution cache, the remote page/database/block hierarchy it queries   *)
(* through HttpClient.executeOperation, and the asynchronous isPageAllowed  *)
(* calls that walk that hierarchy.  Every await on a provider call is a     *)
(* suspension point; the code that runs between two suspension points is    *)
(* one atomic step.                                                         *)
(***************************************************************************)
EXTENDS Integers, Sequences, FiniteSets, TLC

(***************************************************************************)
(* Bounds of the model.                                                    *)
(***************************************************************************)
\* provider calls one isPageAllowed call may issue before the model stops
\* following it (only a call that never returns gets there)
MaxProviderCalls == 7
\* isPageAllowed calls started in one behaviour with concurrent calls
MaxCalls == 2
\* isPageAllowed calls started in one behaviour with one call at a time
MaxSeqCalls == 3

(***************************************************************************)
(* Identifier strings, as sequences of characters.                         *)
(***************************************************************************)
Null == "null"
\* what normalizePageId gives when it raises: no id string has length 1
Throw == <<"Error: Invalid page ID format">>

\* cleanId.length !== 32
CleanLen == 32

Hyphen == <<"-">>
A4 == <<"a", "b", "c", "1">>
N4 == <<"2", "3", "4", "5">>
UA4 == <<"A", "B", "C", "1">>
Rep(c, n) == [i \in 1..n |-> c]

\* String.prototype.toLowerCase on the characters the inputs use
ToLower(c) ==
    CASE c = "A" -> "a" [] c = "B" -> "b" [] c = "C" -> "c"
      [] c = "D" -> "d" [] c = "E" -> "e" [] c = "F" -> "f"
      [] c = "G" -> "g" [] c = "Z" -> "z"
      [] OTHER -> c

\* pageId.replace(/-/g, '')
RemoveHyphens(s) == SelectSeq(s, LAMBDA c : c # "-")

LowerCase(s) == [i \in 1..Len(s) |-> ToLower(s[i])]

\* cleanId.slice(a, b), 0-based and end-exclusive as in JavaScript
Slice(s, a, b) == SubSeq(s, a + 1, b)

\* a normalizePageId that leaves the letters in the case they came in
normalizePageId_KeepsCase(pageId) ==
    LET cleanId == RemoveHyphens(pageId)
    IN  IF Len(cleanId) # CleanLen
        THEN Throw
        ELSE Slice(cleanId, 0, 8) \o Hyphen \o Slice(cleanId, 8, 12) \o Hyphen
             \o Slice(cleanId, 12, 16) \o Hyphen \o Slice(cleanId, 16, 20)
             \o Hyphen \o Slice(cleanId, 20, Len(cleanId))

normalizePageId(pageId) ==
    LET cleanId == LowerCase(RemoveHyphens(pageId))
    IN  IF Len(cleanId) # CleanLen
        THEN Throw
        ELSE Slice(cleanId, 0, 8) \o Hyphen \o Slice(cleanId, 8, 12) \o Hyphen
             \o Slice(cleanId, 12, 16) \o Hyphen \o Slice(cleanId, 16, 20)
             \o Hyphen \o Slice(cleanId, 20, Len(cleanId))

(***************************************************************************)
(* The resources of the remote workspace.  A resource is named r1, r2, r3  *)
(* in the state; CanonicalId gives the 36-character id string the code     *)
(* holds for it (strings are interned: two ids are the same key exactly    *)
(* when their canonical strings are equal).                                *)
(***************************************************************************)
Ids == {"r1", "r2", "r3"}

CanonicalId ==
    [r \in Ids |->
        CASE r = "r1" -> A4 \o N4 \o Hyphen \o A4 \o Hyphen \o N4 \o Hyphen
                         \o A4 \o Hyphen \o N4 \o A4 \o N4
          [] r = "r2" -> Rep("2", 8) \o Hyphen \o Rep("2", 4) \o Hyphen
                         \o Rep("2", 4) \o Hyphen \o Rep("2", 4) \o Hyphen
                         \o Rep("2", 12)
          [] OTHER    -> Rep("f", 8) \o Hyphen \o Rep("0", 4) \o Hyphen
                         \o Rep("0", 4) \o Hyphen \o Rep("0", 4) \o Hyphen
                         \o Rep("3", 12)]

\* the key a normalized id string denotes
Intern(s) == IF \E r \in Ids : CanonicalId[r] = s
             THEN CHOOSE r \in Ids : CanonicalId[r] = s
             ELSE Null

\* 32 characters that are no hexadecimal digits: the id of no resource
NonHex == Rep("z", CleanLen)

\* The raw ids callers pass to isPageAllowed: each resource's canonical id,
\* r1 also unhyphenated and in upper case with hyphens, and malformed ids
\* (too short, empty, not hexadecimal).
RawInputs ==
    {CanonicalId[r] : r \in Ids}
    \cup {A4 \o N4 \o A4 \o N4 \o A4 \o N4 \o A4 \o N4,
          UA4 \o N4 \o Hyphen \o UA4 \o Hyphen \o N4 \o Hyphen \o UA4
              \o Hyphen \o N4 \o UA4 \o N4,
          A4 \o N4,
          <<>>,
          NonHex}

\* normalizePageId on each raw input, computed once
Normalized == [raw \in RawInputs |-> normalizePageId(raw)]
Key == [raw \in RawInputs |-> Intern(Normalized[raw])]

\* An identifier is 32 hexadecimal digits once its hyphens are removed and
\* its letters are in lower case; normalizePageId tests the length only.
HexDigits ==
    {"0", "1", "2", "3", "4", "5", "6", "7", "8", "9",
     "a", "b", "c", "d", "e", "f"}

Malformed(raw) ==
    LET cleanId == LowerCase(RemoveHyphens(raw))
    IN  Len(cleanId) # CleanLen \/ \E i \in 1..Len(cleanId) : cleanId[i] \notin HexDigits

MalformedInput == [raw \in RawInputs |-> Malformed(raw)]

Kinds == {"page", "database", "block"}

VARIABLES
    rootPageIds,  \* PageAccessController.rootPageIds
    pageCache,    \* PageAccessController.pageCache
    kind,         \* remote: what each resource is
    parent,       \* remote: each resource's declared parent, or Null
    pc,           \* where each isPageAllowed call stands
    call,         \* the locals of each isPageAllowed call
    mode,         \* what the environment does in this behaviour
    started,      \* isPageAllowed calls started so far
    hist,         \* history of completed calls (not program state)
    argv,         \* start-server: the --page-id and --page-url lists
    env,          \* NOTION_ROOT_PAGE_ID and NOTION_ROOT_PAGE_URL, split
    boot,         \* where the start of the server stands, and its results
    normalizer,   \* identifiers handed to the normalizer, and its results
    request,      \* a request handed to extractPageIdFromRequest, its result
    http          \* start-server in http mode: auth token, transports, last exchange

\* the state outside the controller
outside == <<argv, env, boot, normalizer, request, http>>

vars == <<rootPageIds, pageCache, kind, parent, pc, call, mode, started, hist,
          outside>>

Procs == {"c1", "c2"}

InFlight == {"probe", "walk", "finish"}

(***************************************************************************)
(* The remote metadata provider: HttpClient.executeOperation on            *)
(* retrieve-a-page, retrieve-a-database and retrieve-a-block.  A lookup of *)
(* resource id as kind k succeeds when the resource is of that kind and    *)
(* the provider does not fail (ok); its response carries the parent link.  *)
(***************************************************************************)
ParentType(k) ==
    CASE k = "page" -> "page_id"
      [] k = "database" -> "database_id"
      [] OTHER -> "block_id"

\* response.data.parent of resource id
ParentLink(id) ==
    IF parent[id] = Null
    THEN [type |-> "workspace", id |-> Null]
    ELSE [type |-> ParentType(kind[parent[id]]), id |-> parent[id]]

executeOperation(k, id, ok) == ok /\ id \in Ids /\ kind[id] = k

(***************************************************************************)
(* The parent resolver.  Each operator is the code of one function from    *)
(* the point where its provider lookup returns: it returns a page id or    *)
(* Null ("ret"), raises ("throw"), or hands over to another resolver       *)
(* function, whose first act is the next provider lookup ("fetch").        *)
(***************************************************************************)
Ret(v) == [tag |-> "ret", k |-> "page", id |-> v]
Fetch(k, id) == [tag |-> "fetch", k |-> k, id |-> id]
Raise == [tag |-> "throw", k |-> "page", id |-> Null]

\* getDatabaseParent without the block_id case
getDatabaseParent_PageOnly(databaseId, ok) ==
    IF ~executeOperation("database", databaseId, ok)
    THEN Ret(Null)
    ELSE LET link == ParentLink(databaseId)
         IN  IF link.type = "page_id" THEN Ret(link.id) ELSE Ret(Null)

getDatabaseParent(databaseId, ok) ==
    IF ~executeOperation("database", databaseId, ok)
    THEN Ret(Null)
    ELSE LET link == ParentLink(databaseId)
         IN  CASE link.type = "page_id" -> Ret(link.id)
               [] link.type = "block_id" -> Fetch("block", link.id)
               [] OTHER -> Ret(Null)

resolveBlockToPage(blockId, ok) ==
    IF ~executeOperation("block", blockId, ok)
    THEN Ret(Null)
    ELSE LET link == ParentLink(blockId)
         IN  CASE link.type = "page_id" -> Ret(link.id)
               [] link.type = "block_id" -> Fetch("block", link.id)
               [] link.type = "database_id" -> Fetch("database", link.id)
               [] OTHER -> Ret(Null)

getParentPageId(pageId, ok) ==
    IF ~executeOperation("page", pageId, ok)
    THEN Raise
    ELSE LET link == ParentLink(pageId)
         IN  CASE link.type = "page_id" -> Ret(link.id)
               [] link.type = "database_id" -> Fetch("database", link.id)
               [] link.type = "block_id" -> Fetch("block", link.id)
               [] OTHER -> Ret(Null)

\* the resolver function that waits for the pending lookup f
Resolver(f, ok) ==
    CASE f.k = "page" -> getParentPageId(f.id, ok)
      [] f.k = "database" -> getDatabaseParent(f.id, ok)
      [] OTHER -> resolveBlockToPage(f.id, ok)

(***************************************************************************)
(* The resolution cache.                                                   *)
(***************************************************************************)
Entry(parentId, isAllowed) ==
    [present |-> TRUE, parentId |-> parentId, isAllowed |-> isAllowed]
NoEntry == [present |-> FALSE, parentId |-> Null, isAllowed |-> FALSE]
EmptyCache == [x \in {} |-> NoEntry]

CacheHas(cache, id) == id \in DOMAIN cache
CacheGet(cache, id) == IF CacheHas(cache, id) THEN cache[id] ELSE NoEntry
CacheSet(cache, id, e) ==
    [x \in DOMAIN cache \cup {id} |-> IF x = id THEN e ELSE cache[x]]

(***************************************************************************)
(* checkPageHierarchy, between two provider lookups.  Each operator gives  *)
(* the cache, the visited set and the current page when the walk next      *)
(* suspends on getParentPageId ("fetch") or returns ("ret").               *)
(***************************************************************************)
WalkOut(tag, cache, visited, current, isAllowed) ==
    [tag |-> tag, cache |-> cache, visited |-> visited, current |-> current,
     isAllowed |-> isAllowed]

\* after the loop: visited pages without an entry are cached as not allowed
WalkNotFound(cache, visited) ==
    WalkOut("ret",
            [x \in DOMAIN cache \cup visited |->
                IF x \in DOMAIN cache THEN cache[x] ELSE Entry(Null, FALSE)],
            visited, Null, FALSE)

\* the loop without `!visited.has(currentPageId)` in its test
WalkLoop_NoVisitedTest(cache, visited, current) ==
    IF current = Null
    THEN WalkNotFound(cache, visited)
    ELSE LET seen == visited \cup {current}
         IN  IF current \in rootPageIds
             THEN WalkOut("ret",
                          [x \in DOMAIN cache \cup seen |->
                              IF x \in seen THEN Entry(Null, TRUE) ELSE cache[x]],
                          seen, current, TRUE)
             ELSE WalkOut("fetch", cache, seen, current, FALSE)

\* the loop with a root hit that caches the root alone as allowed
WalkLoop_RootOnly(cache, visited, current) ==
    IF current = Null \/ current \in visited
    THEN WalkNotFound(cache, visited)
    ELSE LET seen == visited \cup {current}
         IN  IF current \in rootPageIds
             THEN WalkOut("ret", CacheSet(cache, current, Entry(Null, TRUE)),
                          seen, current, TRUE)
             ELSE WalkOut("fetch", cache, seen, current, FALSE)

\* one pass from the loop's test to the call of getParentPageId
WalkLoop(cache, visited, current) ==
    IF current = Null \/ current \in visited
    THEN WalkNotFound(cache, visited)
    ELSE LET seen == visited \cup {current}
         IN  IF current \in rootPageIds
             THEN WalkOut("ret",
                          [x \in DOMAIN cache \cup seen |->
                              IF x \in seen THEN Entry(Null, TRUE) ELSE cache[x]],
                          seen, current, TRUE)
             ELSE WalkOut("fetch", cache, seen, current, FALSE)

\* getParentPageId(current) returned parentId
WalkParent(cache, visited, current, parentId) ==
    LET provisional == CacheSet(cache, current, Entry(parentId, FALSE))
    IN  IF parentId # Null
        THEN WalkLoop(provisional, visited, parentId)
        ELSE WalkNotFound(provisional, visited)

\* a catch block that caches the current page as allowed and returns true
WalkCatch_FailOpen(cache, visited, current) ==
    WalkOut("ret", CacheSet(cache, current, Entry(Null, TRUE)), visited,
            current, TRUE)

\* getParentPageId(current) raised
WalkCatch(cache, visited, current) ==
    WalkOut("ret", CacheSet(cache, current, Entry(Null, FALSE)), visited,
            current, FALSE)

(***************************************************************************)
(* The locals of one isPageAllowed call.  id is the key the raw argument   *)
(* normalizes to and fetch the provider lookup the call is suspended on.   *)
(* how, entry, prior, priorCrossed, priorFailed, priorCleared, crossed,    *)
(* upstream and malformed record what happened for the properties and are  *)
(* never read by a step.                                                   *)
(***************************************************************************)
NoFetch == Fetch("page", Null)

IdleCall ==
    [id |-> Null, stage |-> "none", fetch |-> NoFetch, actual |-> Null,
     current |-> Null, visited |-> {}, isAllowed |-> FALSE, result |-> FALSE,
     raised |-> FALSE, n |-> 0, how |-> "none", entry |-> NoEntry,
     prior |-> "none", priorCrossed |-> FALSE, priorFailed |-> FALSE,
     crossed |-> {}, upstream |-> FALSE, malformed |-> FALSE,
     priorCleared |-> FALSE]

HistInit ==
    [settled |-> [x \in Ids |-> "none"], crossedTrue |-> {}, walkFailed |-> {},
     cleared |-> {}]

BoolStr(b) == IF b THEN "true" ELSE "false"

\* the history after call c has returned result
HistAfter(c, how, result) ==
    IF ~mode.seq \/ c.id \notin Ids \/ how \in {"disabled", "raised"}
    THEN hist
    ELSE [settled |-> [hist.settled EXCEPT ![c.id] = BoolStr(result)],
          crossedTrue |-> hist.crossedTrue \cup
              (IF how = "walk" /\ result
               THEN c.crossed \cup c.visited \cup {c.id} ELSE {}),
          walkFailed |-> hist.walkFailed \cup
              (IF c.upstream THEN {c.id} ELSE {}),
          cleared |-> {}]

\* call p returns (or raises): its promise settles with cache as the cache
Complete(pcs, calls, p, c, cache, how, result) ==
    /\ pc' = [pcs EXCEPT ![p] = "done"]
    /\ call' = [calls EXCEPT ![p] =
                   [c EXCEPT !.stage = "none", !.fetch = NoFetch,
                             !.current = Null, !.crossed = {},
                             !.result = result, !.raised = (how = "raised"),
                             !.how = how, !.entry = CacheGet(cache, c.id)]]
    /\ pageCache' = cache
    /\ hist' = HistAfter(c, how, result)

\* the resources a call has crossed so far, kept in sequential behaviours
Crossed(c, f, ok) ==
    IF mode.seq /\ executeOperation(f.k, f.id, ok)
    THEN c.crossed \cup {f.id} ELSE c.crossed

\* the provider may fail a lookup that would otherwise succeed
MayFail(f) == mode.fail /\ executeOperation(f.k, f.id, TRUE)

isEnabled == rootPageIds # {}

\* a new call takes the first slot that holds no call in flight
FreeSlot == IF pc["c1"] \notin InFlight THEN "c1" ELSE "c2"

\* this.rootPageIds.has(normalizedResourceId) in isPageAllowed
IsRootPage_Never(id) == FALSE
IsRootPage(id) == id \in rootPageIds

(***************************************************************************)
(* isPageAllowed(raw) up to its first await.                               *)
(***************************************************************************)
isPageAllowed(p, raw) ==
    /\ pc[p] \in {"idle", "done"}
    /\ started < mode.calls
    /\ started' = started + 1
    /\ mode.seq => \A q \in Procs : pc[q] \notin InFlight
    /\ p = FreeSlot
    /\ LET norm == Normalized[raw]
           id == Key[raw]
           \* the results of the calls that returned earlier have been taken
           pcs == [q \in Procs |-> IF pc[q] = "done" THEN "idle" ELSE pc[q]]
           calls == [q \in Procs |->
                        IF pc[q] = "done" THEN IdleCall ELSE call[q]]
           c == [IdleCall EXCEPT
                    !.id = id,
                    !.prior = IF id \in Ids THEN hist.settled[id] ELSE "none",
                    !.priorCrossed = id \in hist.crossedTrue,
                    !.priorFailed = id \in hist.walkFailed,
                    !.malformed = MalformedInput[raw],
                    !.priorCleared = id \in hist.cleared]
       IN  IF ~isEnabled
           THEN Complete(pcs, calls, p, c, pageCache, "disabled", TRUE)
           ELSE IF norm = Throw
           THEN Complete(pcs, calls, p, c, pageCache, "raised", FALSE)
           ELSE IF IsRootPage(id)
           THEN Complete(pcs, calls, p, c, pageCache, "root", TRUE)
           ELSE IF CacheHas(pageCache, id)
           THEN Complete(pcs, calls, p, c, pageCache, "cache",
                         pageCache[id].isAllowed)
           ELSE /\ pc' = [pcs EXCEPT ![p] = "probe"]
                /\ call' = [calls EXCEPT ![p] =
                               [c EXCEPT !.stage = "page",
                                         !.fetch = Fetch("page", id),
                                         !.n = 1]]
                /\ UNCHANGED <<pageCache, hist>>
    /\ UNCHANGED <<rootPageIds, kind, parent, mode, outside>>

(***************************************************************************)
(* findRootPageForResource(c.id) from the point where its pending lookup   *)
(* returns: the page probe, then getDatabaseParent, then                   *)
(* resolveBlockToPage.  It suspends on the next lookup ("fetch"), returns  *)
(* the page to start the walk from ("found") or returns null ("null").     *)
(***************************************************************************)
ProbeOut(tag, stage, fetch, actual) ==
    [tag |-> tag, stage |-> stage, fetch |-> fetch, actual |-> actual]

findRootPageForResource(c, ok) ==
    IF c.stage = "page"
    THEN IF executeOperation("page", c.fetch.id, ok)
         THEN ProbeOut("found", "none", NoFetch, c.id)
         ELSE ProbeOut("fetch", "database", Fetch("database", c.id), Null)
    ELSE LET out == Resolver(c.fetch, ok)
         IN  IF out.tag = "fetch"
             THEN ProbeOut("fetch", c.stage, out, Null)
             ELSE IF out.id # Null
             THEN ProbeOut("found", "none", NoFetch, out.id)
             ELSE IF c.stage = "database"
             THEN ProbeOut("fetch", "block", Fetch("block", c.id), Null)
             ELSE ProbeOut("null", "none", NoFetch, Null)

\* the call goes on from the outcome w of a stretch of checkPageHierarchy
AfterWalk(p, c, w) ==
    IF w.tag = "fetch"
    THEN /\ c.n < MaxProviderCalls
         /\ pc' = [pc EXCEPT ![p] = "walk"]
         /\ call' = [call EXCEPT ![p] =
                        [c EXCEPT !.stage = "none",
                                  !.fetch = Fetch("page", w.current),
                                  !.current = w.current,
                                  !.visited = w.visited,
                                  !.n = c.n + 1]]
         /\ pageCache' = w.cache
         /\ UNCHANGED hist
    ELSE /\ pc' = [pc EXCEPT ![p] = "finish"]
         /\ call' = [call EXCEPT ![p] =
                        [c EXCEPT !.stage = "none", !.fetch = NoFetch,
                                  !.current = Null,
                                  !.visited = w.visited,
                                  !.isAllowed = w.isAllowed]]
         /\ pageCache' = w.cache
         /\ UNCHANGED hist

\* an entry that allows the unknown resource
NotFoundEntry_Allowed == Entry(Null, TRUE)
\* this.pageCache.set(normalizedResourceId, { parentId: null, isAllowed: false })
NotFoundEntry == Entry(Null, FALSE)

(***************************************************************************)
(* A lookup of findRootPageForResource returns to call p, and              *)
(* isPageAllowed runs on to its next await.                                *)
(***************************************************************************)
ProbeReturn(p, ok) ==
    /\ pc[p] = "probe"
    /\ ok \/ MayFail(call[p].fetch)
    /\ LET c0 == call[p]
           out == findRootPageForResource(c0, ok)
           c == [c0 EXCEPT !.crossed = Crossed(c0, c0.fetch, ok)]
       IN  CASE out.tag = "fetch" ->
                  /\ c.n < MaxProviderCalls
                  /\ pc' = pc
                  /\ call' = [call EXCEPT ![p] =
                                 [c EXCEPT !.stage = out.stage,
                                           !.fetch = out.fetch,
                                           !.n = c.n + 1]]
                  /\ UNCHANGED <<pageCache, hist>>
             [] out.tag = "null" ->
                  Complete(pc, call, p, c,
                           CacheSet(pageCache, c.id, NotFoundEntry),
                           "notfound", FALSE)
             [] OTHER ->
                  AfterWalk(p, [c EXCEPT !.actual = out.actual],
                            WalkLoop(pageCache, {}, out.actual))
    /\ UNCHANGED <<rootPageIds, kind, parent, mode, started, outside>>

(***************************************************************************)
(* A lookup of getParentPageId(current) returns to call p, and             *)
(* checkPageHierarchy runs on to its next await or to its return.          *)
(***************************************************************************)
WalkReturn(p, ok) ==
    /\ pc[p] = "walk"
    /\ ok \/ MayFail(call[p].fetch)
    /\ LET c0 == call[p]
           out == Resolver(c0.fetch, ok)
           c == [c0 EXCEPT !.crossed = Crossed(c0, c0.fetch, ok)]
       IN  CASE out.tag = "fetch" ->
                  /\ c.n < MaxProviderCalls
                  /\ pc' = pc
                  /\ call' = [call EXCEPT ![p] =
                                 [c EXCEPT !.fetch = out, !.n = c.n + 1]]
                  /\ UNCHANGED <<pageCache, hist>>
             [] out.tag = "throw" ->
                  AfterWalk(p, [c EXCEPT !.upstream = TRUE],
                            WalkCatch(pageCache, c.visited, c.current))
             [] OTHER ->
                  AfterWalk(p, c,
                            WalkParent(pageCache, c.visited, c.current, out.id))
    /\ UNCHANGED <<rootPageIds, kind, parent, mode, started, outside>>

(***************************************************************************)
(* isPageAllowed after `await this.checkPageHierarchy(actualPageId)`: it   *)
(* caches the result for the queried id and returns it.                    *)
(***************************************************************************)
\* an entry that denies the queried id whatever the walk returned
CacheResult_Denied(c) == Entry(c.actual, FALSE)
CacheResult(c) == Entry(c.actual, c.isAllowed)

Finish(p) ==
    /\ pc[p] = "finish"
    /\ Complete(pc, call, p, call[p],
                CacheSet(pageCache, call[p].id, CacheResult(call[p])),
                "walk", call[p].isAllowed)
    /\ UNCHANGED <<rootPageIds, kind, parent, mode, started, outside>>

\* the ids answered before this clearCache, for the call that follows it
HistCleared ==
    IF mode.seq /\ mode.clears
    THEN [HistInit EXCEPT !.cleared =
             hist.cleared \cup {x \in Ids : hist.settled[x] # "none"}]
    ELSE HistInit

\* a clearCache that leaves the entries in place
clearCache_KeepsEntries ==
    /\ mode.seq => \A q \in Procs : pc[q] \notin InFlight
    /\ pageCache' = pageCache
    /\ hist' = HistCleared
    /\ UNCHANGED <<rootPageIds, kind, parent, pc, call, mode, started,
                   outside>>

\* a clearCache that empties the root set with the cache
clearCache_DropsRoots ==
    /\ mode.seq => \A q \in Procs : pc[q] \notin InFlight
    /\ pageCache' = EmptyCache
    /\ rootPageIds' = {}
    /\ hist' = HistCleared
    /\ UNCHANGED <<kind, parent, pc, call, mode, started, outside>>

clearCache ==
    /\ mode.seq => \A q \in Procs : pc[q] \notin InFlight
    /\ pageCache' = EmptyCache
    /\ hist' = HistCleared
    /\ UNCHANGED <<rootPageIds, kind, parent, pc, call, mode, started,
                   outside>>

(***************************************************************************)
(* extractPageIdFromRequest(path, params).  A path is a string; a          *)
(* parameter is a string or undefined, params.parent an object or          *)
(* undefined.  The ids come back as they were given.                       *)
(***************************************************************************)
Undefined == "undefined"
EmptyString == ""

\* what JavaScript takes as true in `x && y` and `if (x)`
Truthy(v) == v \notin {Undefined, EmptyString}

\* path.includes(part)
Includes(path, part) ==
    \E i \in 0..(Len(path) - Len(part)) :
        SubSeq(path, i + 1, i + Len(part)) = part

Paths ==
    {<<"/", "v", "1", "/", "p", "a", "g", "e", "s", "/", "1">>,
     <<"/", "v", "1", "/", "p", "a", "g", "e", "s">>,
     <<"/", "v", "1", "/", "b", "l", "o", "c", "k", "s", "/", "1", "/", "c", "h", "i", "l", "d", "r", "e", "n">>,
     <<"/", "v", "1", "/", "d", "a", "t", "a", "b", "a", "s", "e", "s", "/", "1", "/", "q", "u", "e", "r", "y">>,
     <<"/", "v", "1", "/", "d", "a", "t", "a", "b", "a", "s", "e", "s", "/", "1">>,
     <<"/", "v", "1", "/", "s", "e", "a", "r", "c", "h">>,
     <<"/", "v", "1", "/", "b", "l", "o", "c", "k", "s", "/", "1", "/", "p", "a", "g", "e", "s", "/", "2">>,
     <<"/", "v", "1", "/", "p", "a", "g", "e", "s", "/", "1", "/", "d", "a", "t", "a", "b", "a", "s", "e", "s", "/", "2", "/", "q", "u", "e", "r", "y">>}

PagesSlash == <<"/", "p", "a", "g", "e", "s", "/">>
BlocksSlash == <<"/", "b", "l", "o", "c", "k", "s", "/">>
DatabasesSlash == <<"/", "d", "a", "t", "a", "b", "a", "s", "e", "s", "/">>
Query == <<"/", "q", "u", "e", "r", "y">>
Pages == <<"/", "p", "a", "g", "e", "s">>

\* the tests on the path, computed once for each path
PathHas ==
    [path \in Paths |->
        [pagesSlash |-> Includes(path, PagesSlash),
         blocksSlash |-> Includes(path, BlocksSlash),
         databasesSlash |-> Includes(path, DatabasesSlash),
         query |-> Includes(path, Query),
         pages |-> Includes(path, Pages)]]

NoParent == [present |-> FALSE, page_id |-> Undefined, database_id |-> Undefined]

Parents ==
    {NoParent}
    \cup [present : {TRUE}, page_id : {Undefined, EmptyString, "page-2"},
          database_id : {Undefined, "database-2"}]

Params ==
    [page_id : {Undefined, EmptyString, "page-1"},
     block_id : {Undefined, "block-1"},
     database_id : {Undefined, "database-1"},
     parent : Parents]

\* extractPageIdFromRequest with its tests in another order: blocks first
extractPageIdFromRequest_BlocksFirst(path, params) ==
    LET has == PathHas[path]
    IN  IF has.blocksSlash /\ Truthy(params.block_id)
        THEN params.block_id
        ELSE IF has.pagesSlash /\ Truthy(params.page_id)
        THEN params.page_id
        ELSE IF has.databasesSlash /\ has.query /\ Truthy(params.database_id)
        THEN params.database_id
        ELSE IF has.pages /\ params.parent.present
                /\ Truthy(params.parent.page_id)
        THEN params.parent.page_id
        ELSE IF has.pages /\ params.parent.present
                /\ Truthy(params.parent.database_id)
        THEN params.parent.database_id
        ELSE Null

extractPageIdFromRequest(path, params) ==
    LET has == PathHas[path]
    IN  IF has.pagesSlash /\ Truthy(params.page_id)
        THEN params.page_id
        ELSE IF has.blocksSlash /\ Truthy(params.block_id)
        THEN params.block_id
        ELSE IF has.databasesSlash /\ has.query /\ Truthy(params.database_id)
        THEN params.database_id
        ELSE IF has.pages /\ params.parent.present
                /\ Truthy(params.parent.page_id)
        THEN params.parent.page_id
        ELSE IF has.pages /\ params.parent.present
                /\ Truthy(params.parent.database_id)
        THEN params.parent.database_id
        ELSE Null

RequestAt(stage, path, params, result) ==
    [stage |-> stage, path |-> path, params |-> params, result |-> result]

NoRequest ==
    RequestAt("none", <<>>,
              [page_id |-> Undefined, block_id |-> Undefined,
               database_id |-> Undefined, parent |-> NoParent], Null)

(***************************************************************************)
(* start-server.ts with --transport http: an express application with the  *)
(* JSON body parser, the /health route, the authenticateToken middleware   *)
(* on /mcp and the POST, GET and DELETE handlers of /mcp over the          *)
(* transports map.  A request is taken through the whole chain in one      *)
(* step.                                                                   *)
(***************************************************************************)
MaxSessions == 2

\* a header the request does not carry, an option that is not given
Absent == <<Undefined>>
Space == " "

\* s.split(' ')
RECURSIVE Split(_)
Split(s) ==
    LET at == {i \in 1..Len(s) : s[i] = Space}
    IN  IF at = {}
        THEN <<s>>
        ELSE LET i == CHOOSE j \in at : \A k \in at : j <= k
             IN  <<SubSeq(s, 1, i - 1)>> \o Split(SubSeq(s, i + 1, Len(s)))

\* what JavaScript takes as true, for a string that may be absent
Given(v) == v \notin {Absent, <<>>}

TokenCli == <<"s", "3">>
TokenEnv == <<"e", "5">>
TokenRandom == <<"g", "7">>

\* options.authToken || process.env.AUTH_TOKEN || randomBytes(32).toString('hex')
AuthTokenOf(optionsAuthToken, envAuthToken) ==
    IF Given(optionsAuthToken) THEN optionsAuthToken
    ELSE IF Given(envAuthToken) THEN envAuthToken
    ELSE TokenRandom

Ok == 200
BadRequest == 400
Unauthorized == 401
Forbidden == 403
NotFound == 404
InternalError == 500
\* no status: the middleware has called next()
Passed == 0
\* no transport has handled the request
NoTransport == 0
\* no status: the request is never answered
Unanswered == 0

Bearer == <<"B", "e", "a", "r", "e", "r">>
Basic == <<"B", "a", "s", "i", "c">>

AuthHeaders ==
    {Absent, <<>>, Bearer,
     Bearer \o <<Space>> \o TokenCli,
     Bearer \o <<Space>> \o TokenEnv,
     Bearer \o <<Space, Space>> \o TokenCli,
     Basic \o <<Space>> \o TokenCli,
     TokenCli}

\* randomUUID() of the transport created t-th
SessionIdOf(t) ==
    CASE t = 1 -> "session-1"
      [] t = 2 -> "session-2"
      [] t = 3 -> "session-3"
      [] OTHER -> "session-4"

Methods == {"POST", "GET", "DELETE"}
Routes == {"/mcp", "/health"}
Bodies == {"initialize", "other", "malformed"}
SessionHeaders == {Undefined, "session-1", "session-2", "constructor"}

\* transports is a plain object ({}): besides its own keys it answers for the
\* properties every object inherits, none of which is a transport
Inherited == {"constructor"}

\* the requests to /mcp, and those to /health that carry no header
Requests ==
    {req \in [method : Methods, route : Routes, authorization : AuthHeaders,
              sessionId : SessionHeaders, body : Bodies] :
        req.route = "/health" =>
            (req.authorization = Absent /\ req.sessionId = Undefined)}

\* what became of a request: the status of the answer, the route handler it
\* reached, whether the transports map was read, the transport that handled it
Answer(status, handler, looked, transport) ==
    [status |-> status, handler |-> handler, looked |-> looked,
     transport |-> transport]

\* the token of authenticateToken: authHeader && authHeader.split(' ')[1]
TokenOf(authHeader) ==
    IF ~Given(authHeader) THEN authHeader
    ELSE LET parts == Split(authHeader)
         IN  IF Len(parts) >= 2 THEN parts[2] ELSE Absent

\* the token of each header, computed once
TokenOfHeader == [authHeader \in AuthHeaders |-> TokenOf(authHeader)]

\* authenticateToken: the status it answers, or Passed where it calls next()
authenticateToken_TokenOptional(authHeader, authToken) ==
    LET token == TokenOfHeader[authHeader]
    IN  IF ~Given(token) THEN Passed
        ELSE IF token # authToken THEN Forbidden
        ELSE Passed

authenticateToken(authHeader, authToken) ==
    LET token == TokenOfHeader[authHeader]
    IN  IF ~Given(token) THEN Unauthorized
        ELSE IF token # authToken THEN Forbidden
        ELSE Passed

\* closed holds the session ids of the transports that have closed
HttpAt(authToken, transports, created, closed, req, answer) ==
    [authToken |-> authToken, transports |-> transports, created |-> created,
     closed |-> closed, req |-> req, answer |-> answer]

NoTransports == [sid \in {} |-> 0]
NoExchange ==
    [method |-> "none", route |-> "none", authorization |-> Absent,
     sessionId |-> Undefined, body |-> "other"]
NoAnswer == Answer(0, "none", FALSE, NoTransport)
NoHttp == HttpAt(Absent, NoTransports, 0, {}, NoExchange, NoAnswer)

(***************************************************************************)
(* The start of the server: parseArgs (scripts/start-server.ts) merges the *)
(* command line with the environment, and the constructor of               *)
(* PageAccessController builds the root set from the merged options and,   *)
(* again, from the environment.  The lists hold the entries after          *)
(* split(','), trim and the removal of empty entries.                      *)
(***************************************************************************)
\* lists of at most this many entries per source
MaxEntries == 2

\* what extractPageIdFromUrl gives when it raises
ThrowUrl == <<"Error: Invalid Notion page URL format">>

\* no identifier handed to the normalizer
NoNorm ==
    [stage |-> "none", x |-> <<>>, y |-> <<>>, nx |-> Throw, ny |-> Throw,
     nnx |-> Throw, ux |-> ThrowUrl, uy |-> ThrowUrl]

UrlPrefix ==
    <<"h", "t", "t", "p", "s", ":", "/", "/", "n", "o", "t", "i", "o", "n",
      ".", "s", "o", "/">>
Title == <<"T", "i", "t", "l", "e", "-">>

\* [a-f0-9] under the i flag
IsHexChar(c) == ToLower(c) \in HexDigits

\* url.match(/([a-f0-9]{32}|[a-f0-9]{8}-[a-f0-9]{4}-[a-f0-9]{4}-[a-f0-9]{4}-
\* [a-f0-9]{12})$/i): the last 32 characters when all are hexadecimal, else
\* the last 36 when they have the 8-4-4-4-12 shape (no suffix has both shapes)
UrlMatch(url) ==
    LET n == Len(url)
        last32 == SubSeq(url, n - 31, n)
        last36 == SubSeq(url, n - 35, n)
        hyphens == {9, 14, 19, 24}
    IN  IF n >= 32 /\ \A i \in 1..32 : IsHexChar(last32[i])
        THEN last32
        ELSE IF /\ n >= 36
                /\ \A i \in 1..36 :
                      IF i \in hyphens THEN last36[i] = "-"
                      ELSE IsHexChar(last36[i])
        THEN last36
        ELSE ThrowUrl

extractPageIdFromUrl(url) ==
    IF UrlMatch(url) = ThrowUrl THEN ThrowUrl
    ELSE normalizePageId(UrlMatch(url))

\* The entries the sources are drawn from: well-formed ids and urls in
\* several spellings, and malformed ones.
CliIdEntries == {CanonicalId["r1"], A4 \o N4, NonHex}
CliUrlEntries ==
    {UrlPrefix \o Rep("2", 32),
     UrlPrefix \o Title \o UA4 \o N4 \o Hyphen \o UA4 \o Hyphen \o N4
         \o Hyphen \o UA4 \o Hyphen \o N4 \o UA4 \o N4,
     UrlPrefix \o Title}
EnvIdEntries == {CanonicalId["r3"], A4 \o N4}
EnvUrlEntries == {UrlPrefix \o CanonicalId["r2"], UrlPrefix \o NonHex}

IdEntries == CliIdEntries \cup EnvIdEntries
UrlEntries == CliUrlEntries \cup EnvUrlEntries

\* normalizePageId and extractPageIdFromUrl on each entry, computed once
EntryId == [e \in IdEntries |-> normalizePageId(e)]
UrlId == [u \in UrlEntries |-> extractPageIdFromUrl(u)]

ListsOver(S) == UNION {[1..n -> S] : n \in 0..MaxEntries}
Range(list) == {list[i] : i \in 1..Len(list)}

NoLists == [pageIds |-> <<>>, pageUrls |-> <<>>]

\* parseArgs: the lines after the loop over the arguments
parseArgs(cli, environment) ==
    [pageIds |-> IF Len(cli.pageIds) > 0 THEN cli.pageIds
                 ELSE environment.pageIds,
     pageUrls |-> IF Len(cli.pageUrls) > 0 THEN cli.pageUrls
                  ELSE environment.pageUrls]

\* the loops of initializeRootPages: a malformed id raises out of the
\* constructor wherever it stands in its list, a malformed url is skipped
IdsRaise(list) == \E e \in Range(list) : EntryId[e] = Throw
IdsOf(list) == {EntryId[e] : e \in Range(list)}
UrlsOf(list) == {UrlId[u] : u \in Range(list)} \ {ThrowUrl}

RootsOut(aborted, roots) == [aborted |-> aborted, roots |-> roots]

initializeRootPages(options, environment) ==
    LET explicit == IdsOf(options.pageIds) \cup UrlsOf(options.pageUrls)
    IN  IF IdsRaise(options.pageIds) THEN RootsOut(TRUE, {})
        ELSE IF explicit # {} THEN RootsOut(FALSE, explicit)
        ELSE IF IdsRaise(environment.pageIds) THEN RootsOut(TRUE, {})
        ELSE RootsOut(FALSE, IdsOf(environment.pageIds)
                                 \cup UrlsOf(environment.pageUrls))

\* boot.stage: "args" before parseArgs, "options" before the constructor,
\* then "built" or, when the constructor raised, "aborted"
BootAt(stage, options, roots) ==
    [stage |-> stage, options |-> options, roots |-> roots]
Booted == BootAt("built", NoLists, {})

\* the controller's variables but the root set
controller == <<pageCache, kind, parent, pc, call, mode, started, hist>>

ParseArgs ==
    /\ boot.stage = "args"
    /\ boot' = BootAt("options", parseArgs(argv, env), {})
    /\ UNCHANGED <<argv, env, normalizer, request, http, rootPageIds, controller>>

Construct ==
    /\ boot.stage = "options"
    /\ LET out == initializeRootPages(boot.options, env)
       IN  /\ boot' = BootAt(IF out.aborted THEN "aborted" ELSE "built",
                             boot.options, out.roots)
           /\ rootPageIds' = {Intern(id) : id \in out.roots}
    /\ UNCHANGED <<argv, env, normalizer, request, http, controller>>

InitBoot ==
    /\ argv \in [pageIds : ListsOver(CliIdEntries),
                 pageUrls : ListsOver(CliUrlEntries)]
    /\ env \in [pageIds : ListsOver(EnvIdEntries),
                pageUrls : ListsOver(EnvUrlEntries)]
    /\ boot = BootAt("args", NoLists, {})
    /\ normalizer = NoNorm
    /\ request = NoRequest
    /\ http = NoHttp
    /\ rootPageIds = {}
    /\ pageCache = EmptyCache
    /\ kind = [x \in Ids |-> "page"]
    /\ parent = [x \in Ids |-> Null]
    /\ pc = [p \in Procs |-> "idle"]
    /\ call = [p \in Procs |-> IdleCall]
    /\ mode = [seq |-> TRUE, fail |-> FALSE, calls |-> 0, clears |-> FALSE]
    /\ started = 0
    /\ hist = HistInit

NextBoot == ParseArgs \/ Construct

SpecBoot == InitBoot /\ [][NextBoot]_vars

(***************************************************************************)
(* The normalizer on its own: normalizePageId and extractPageIdFromUrl     *)
(* applied to two identifiers x and y in many spellings.                   *)
(***************************************************************************)
Hex16 ==
    <<"0", "1", "2", "3", "4", "5", "6", "7", "8", "9",
      "a", "b", "c", "d", "e", "f">>

\* 32 hexadecimal digits in lower case
Bases == {A4 \o N4 \o A4 \o N4 \o A4 \o N4 \o A4 \o N4, Hex16 \o Hex16}

ToUpper(c) ==
    CASE c = "a" -> "A" [] c = "b" -> "B" [] c = "c" -> "C"
      [] c = "d" -> "D" [] c = "e" -> "E" [] c = "f" -> "F"
      [] c = "g" -> "G"
      [] OTHER -> c

\* where the hyphens go: after the characters at these positions
Hyphenations ==
    {{}, {8, 12, 16, 20}, {8}, {4, 8, 12, 16, 20, 24, 28}, {0, 32}, {0}}

RECURSIVE Hyphenated(_, _, _)
Hyphenated(s, at, i) ==
    IF i > Len(s) THEN <<>>
    ELSE <<s[i]>> \o (IF i \in at THEN Hyphen ELSE <<>>)
         \o Hyphenated(s, at, i + 1)

Defects == {"none", "short", "long", "nonhex"}

Defective(s, defect) ==
    CASE defect = "short" -> SubSeq(s, 1, Len(s) - 1)
      [] defect = "long" -> s \o <<"0">>
      [] defect = "nonhex" -> <<"g">> \o SubSeq(s, 2, Len(s))
      [] OTHER -> s

Spelled(base, defect, upper, at) ==
    LET s == Defective(base, defect)
        t == IF upper THEN [i \in 1..Len(s) |-> ToUpper(s[i])] ELSE s
    IN  (IF 0 \in at THEN Hyphen ELSE <<>>) \o Hyphenated(t, at, 1)

Spellings ==
    {Spelled(b, d, u, at) :
        b \in Bases, d \in Defects, u \in BOOLEAN, at \in Hyphenations}
    \cup {<<>>}

\* normalizePageId on x and y, on the result for x, and extractPageIdFromUrl
\* on a url that ends in x and on one that ends in y
Normalize ==
    /\ normalizer.stage = "in"
    /\ normalizer' = [normalizer EXCEPT
                   !.stage = "out",
                   !.nx = normalizePageId(normalizer.x),
                   !.ny = normalizePageId(normalizer.y),
                   !.nnx = IF normalizePageId(normalizer.x) = Throw THEN Throw
                           ELSE normalizePageId(normalizePageId(normalizer.x)),
                   !.ux = extractPageIdFromUrl(UrlPrefix \o Title \o normalizer.x),
                   !.uy = extractPageIdFromUrl(UrlPrefix \o normalizer.y)]
    /\ UNCHANGED <<argv, env, boot, request, http, rootPageIds, controller>>

InitNorm ==
    /\ normalizer \in {[NoNorm EXCEPT !.stage = "in", !.x = x, !.y = y] :
                    x, y \in Spellings}
    /\ request = NoRequest
    /\ http = NoHttp
    /\ argv = NoLists
    /\ env = NoLists
    /\ boot = Booted
    /\ rootPageIds = {}
    /\ pageCache = EmptyCache
    /\ kind = [r \in Ids |-> "page"]
    /\ parent = [r \in Ids |-> Null]
    /\ pc = [p \in Procs |-> "idle"]
    /\ call = [p \in Procs |-> IdleCall]
    /\ mode = [seq |-> TRUE, fail |-> FALSE, calls |-> 0, clears |-> FALSE]
    /\ started = 0
    /\ hist = HistInit

NextNorm == Normalize

SpecNorm == InitNorm /\ [][NextNorm]_vars

(***************************************************************************)
(* The handlers of the http application.                                   *)
(***************************************************************************)
\* sessionId && transports[sessionId]
Known(sid) ==
    Truthy(sid) /\ (sid \in DOMAIN http.transports \/ sid \in Inherited)

\* transports[sessionId] is a transport, so that handleRequest can be called
IsTransport(sid) == sid \in DOMAIN http.transports

\* app.post('/mcp'): the transports map, the count of transports and the
\* answer it leaves; ok tells whether initProxy and connect went through
PostMcp(req, ok) ==
    IF Known(req.sessionId)
    THEN IF IsTransport(req.sessionId)
         THEN [transports |-> http.transports, created |-> http.created,
               answer |-> Answer(Ok, "post", TRUE,
                                 http.transports[req.sessionId])]
         ELSE \* transport.handleRequest is not a function: caught, 500
              [transports |-> http.transports, created |-> http.created,
               answer |-> Answer(InternalError, "post", TRUE, NoTransport)]
    ELSE IF ~Truthy(req.sessionId) /\ req.body = "initialize"
    THEN LET t == http.created + 1
         IN  IF ok
             THEN [transports |->
                       [sid \in DOMAIN http.transports \cup {SessionIdOf(t)} |->
                           IF sid = SessionIdOf(t) THEN t
                           ELSE http.transports[sid]],
                   created |-> t,
                   answer |-> Answer(Ok, "post", Truthy(req.sessionId), t)]
             ELSE [transports |-> http.transports, created |-> t,
                   answer |-> Answer(InternalError, "post",
                                     Truthy(req.sessionId), NoTransport)]
    ELSE [transports |-> http.transports, created |-> http.created,
          answer |-> Answer(BadRequest, "post", Truthy(req.sessionId), NoTransport)]

\* app.get('/mcp') and app.delete('/mcp'); where the handler throws, outside
\* any try, ok tells whether express answers for it (500) or nobody does
GetOrDeleteMcp(req, handler, ok) ==
    IF ~Known(req.sessionId)
    THEN [transports |-> http.transports, created |-> http.created,
          answer |-> Answer(BadRequest, handler, Truthy(req.sessionId), NoTransport)]
    ELSE IF IsTransport(req.sessionId)
    THEN [transports |-> http.transports, created |-> http.created,
          answer |-> Answer(Ok, handler, TRUE,
                            http.transports[req.sessionId])]
    ELSE [transports |-> http.transports, created |-> http.created,
          answer |-> Answer(IF ok THEN InternalError ELSE Unanswered,
                            handler, TRUE, NoTransport)]

Unhandled(status) ==
    [transports |-> http.transports, created |-> http.created,
     answer |-> Answer(status, "none", FALSE, NoTransport)]

\* the chain of the application, in the order of its app.use and app.<method>
Route(req, ok) ==
    IF req.body = "malformed"
    THEN Unhandled(BadRequest)
    ELSE IF req.route = "/health"
    THEN IF req.method = "GET"
         THEN [transports |-> http.transports, created |-> http.created,
               answer |-> Answer(Ok, "health", FALSE, NoTransport)]
         ELSE Unhandled(NotFound)
    ELSE LET auth == authenticateToken(req.authorization, http.authToken)
         IN  IF auth # Passed THEN Unhandled(auth)
             ELSE IF req.method = "POST" THEN PostMcp(req, ok)
             ELSE IF req.method = "GET" THEN GetOrDeleteMcp(req, "get", ok)
             ELSE GetOrDeleteMcp(req, "delete", ok)

\* the requests for which app.post('/mcp') makes a transport, if they get there
Creates(req) ==
    req.method = "POST" /\ req.body = "initialize" /\ ~Truthy(req.sessionId)

\* the requests whose GET or DELETE handler throws, if they get there
Throws(req) == req.method # "POST" /\ req.sessionId \in Inherited

HandleRequest ==
    /\ http.authToken # Absent
    /\ \E req \in Requests :
          \E ok \in IF Creates(req) \/ Throws(req) THEN BOOLEAN ELSE {TRUE} :
          LET out == Route(req, ok)
          IN  /\ out.created <= MaxSessions
              /\ http' = HttpAt(http.authToken, out.transports, out.created,
                                 http.closed, req, out.answer)
    /\ UNCHANGED <<argv, env, boot, normalizer, request, rootPageIds, controller>>

\* a transport that closes and leaves its session id in the map
TransportClose_KeepsKey ==
    /\ \E closing \in DOMAIN http.transports \ http.closed :
          http' = [http EXCEPT !.closed = http.closed \cup {closing}]
    /\ UNCHANGED <<argv, env, boot, normalizer, request, rootPageIds, controller>>

\* a transport closes: transport.onclose deletes its session id
TransportClose ==
    /\ \E closing \in DOMAIN http.transports :
          http' = [http EXCEPT
                      !.transports = [sid \in DOMAIN http.transports \ {closing}
                                         |-> http.transports[sid]],
                      !.closed = http.closed \cup {closing}]
    /\ UNCHANGED <<argv, env, boot, normalizer, request, rootPageIds, controller>>

InitHttp ==
    /\ \E optionsAuthToken \in {Absent, TokenCli}, envAuthToken \in {Absent, <<>>, TokenEnv} :
          http = HttpAt(AuthTokenOf(optionsAuthToken, envAuthToken),
                        NoTransports, 0, {}, NoExchange, NoAnswer)
    /\ request = NoRequest
    /\ argv = NoLists
    /\ env = NoLists
    /\ boot = Booted
    /\ normalizer = NoNorm
    /\ rootPageIds = {}
    /\ pageCache = EmptyCache
    /\ kind = [r \in Ids |-> "page"]
    /\ parent = [r \in Ids |-> Null]
    /\ pc = [p \in Procs |-> "idle"]
    /\ call = [p \in Procs |-> IdleCall]
    /\ mode = [seq |-> TRUE, fail |-> FALSE, calls |-> 0, clears |-> FALSE]
    /\ started = 0
    /\ hist = HistInit

NextHttp == HandleRequest \/ TransportClose

SpecHttp == InitHttp /\ [][NextHttp]_vars

(***************************************************************************)
(* extractPageIdFromRequest on its own, on a controller in any of a few    *)
(* states of its root set and cache.                                       *)
(***************************************************************************)
ExtractPageId ==
    /\ request.stage = "in"
    /\ request' = [request EXCEPT
                      !.stage = "out",
                      !.result = extractPageIdFromRequest(request.path,
                                                          request.params)]
    /\ UNCHANGED <<argv, env, boot, normalizer, http, rootPageIds, controller>>

InitRequest ==
    /\ request \in {RequestAt("in", path, params, Null) :
                       path \in Paths, params \in Params}
    /\ rootPageIds \in {{}, {"r1"}}
    /\ pageCache \in {EmptyCache, CacheSet(EmptyCache, "r2", Entry("r1", TRUE))}
    /\ argv = NoLists
    /\ env = NoLists
    /\ boot = Booted
    /\ normalizer = NoNorm
    /\ http = NoHttp
    /\ kind = [r \in Ids |-> "page"]
    /\ parent = [r \in Ids |-> IF r = "r2" THEN "r1" ELSE Null]
    /\ pc = [p \in Procs |-> "idle"]
    /\ call = [p \in Procs |-> IdleCall]
    /\ mode = [seq |-> TRUE, fail |-> FALSE, calls |-> 0, clears |-> FALSE]
    /\ started = 0
    /\ hist = HistInit

NextRequest == ExtractPageId

SpecRequest == InitRequest /\ [][NextRequest]_vars

(***************************************************************************)
(* Initial states: any remote hierarchy over Ids, any root set, an empty   *)
(* cache, no call started.                                                 *)
(*                                                                         *)
(* The code compares ids for equality only, so renaming the resources      *)
(* changes no behaviour: of the hierarchies and root sets that differ only *)
(* in which resource is called r1, r2 or r3, the initial states take one   *)
(* (the one with the least code).                                          *)
(***************************************************************************)
KindRank(k) == CASE k = "page" -> 1 [] k = "database" -> 2 [] OTHER -> 3

IdRank(x) == CASE x = "r1" -> 1 [] x = "r2" -> 2 [] x = "r3" -> 3 [] OTHER -> 0

Renamings == {f \in [Ids -> Ids] : \A a, b \in Ids : f[a] = f[b] => a = b}

HierarchyCode(k, par, roots) ==
    LET digit(x) == KindRank(k[x]) * 16 + IdRank(par[x]) * 2
                    + (IF x \in roots THEN 1 ELSE 0)
    IN  digit("r1") * 4096 + digit("r2") * 64 + digit("r3")

Renamed(f, k, par, roots) ==
    LET inv == [y \in Ids |-> CHOOSE x \in Ids : f[x] = y]
    IN  HierarchyCode([y \in Ids |-> k[inv[y]]],
                      [y \in Ids |-> IF par[inv[y]] = Null THEN Null
                                      ELSE f[par[inv[y]]]],
                      {f[r] : r \in roots})

OneOfEachShape(k, par, roots) ==
    \A f \in Renamings : HierarchyCode(k, par, roots) <= Renamed(f, k, par, roots)

InitMode(m) ==
    /\ kind \in [Ids -> Kinds]
    /\ parent \in [Ids -> Ids \cup {Null}]
    /\ rootPageIds \in SUBSET Ids
    /\ OneOfEachShape(kind, parent, rootPageIds)
    /\ started = 0
    /\ pageCache = EmptyCache
    /\ pc = [p \in Procs |-> "idle"]
    /\ call = [p \in Procs |-> IdleCall]
    /\ mode = m
    /\ hist = HistInit
    /\ argv = NoLists
    /\ env = NoLists
    /\ boot = Booted
    /\ normalizer = NoNorm
    /\ request = NoRequest
    /\ http = NoHttp

InitWith(seq, fail, calls) ==
    InitMode([seq |-> seq, fail |-> fail, calls |-> calls, clears |-> FALSE])

Calls ==
    \E p \in Procs :
        \/ \E raw \in RawInputs : isPageAllowed(p, raw)
        \/ \E ok \in BOOLEAN : ProbeReturn(p, ok)
        \/ \E ok \in BOOLEAN : WalkReturn(p, ok)
        \/ Finish(p)

Next == Calls \/ clearCache

\* concurrent calls, provider failures, clearCache at any moment
Init == InitWith(FALSE, TRUE, MaxCalls)
Spec == Init /\ [][Next]_vars

\* one call at a time, a provider that never fails
InitSeq == InitWith(TRUE, FALSE, MaxSeqCalls)
SpecSeq == InitSeq /\ [][Next]_vars

\* the provider answers every lookup, so a call that is suspended on one or
\* about to return takes its next step
Returns ==
    \E p \in Procs :
        \/ \E ok \in BOOLEAN : ProbeReturn(p, ok)
        \/ \E ok \in BOOLEAN : WalkReturn(p, ok)
        \/ Finish(p)

SpecSeqLive == InitSeq /\ [][Next]_vars /\ WF_vars(Returns)

\* one call at a time, provider failures
InitSeqFail == InitWith(TRUE, TRUE, MaxSeqCalls)
SpecSeqFail == InitSeqFail /\ [][Next]_vars

\* one call at a time, and a record of what each clearCache dropped
InitSeqClear ==
    InitMode([seq |-> TRUE, fail |-> FALSE, calls |-> MaxSeqCalls,
              clears |-> TRUE])
SpecSeqClear == InitSeqClear /\ [][Next]_vars

\* The life of one controller after its construction: calls one at a time
\* with provider failures, clearCache, and extractPageIdFromRequest on a
\* page creation under a parent page.
LifeRequests ==
    {RequestAt("out", path, params, extractPageIdFromRequest(path, params)) :
        path \in {<<"/", "v", "1", "/", "p", "a", "g", "e", "s">>},
        params \in {ps \in Params :
                       /\ ps.page_id = Undefined /\ ps.block_id = Undefined
                       /\ ps.database_id = Undefined
                       /\ ps.parent.database_id = Undefined
                       /\ ps.parent.page_id = "page-2"}}

Extract ==
    /\ request' \in LifeRequests
    /\ UNCHANGED <<argv, env, boot, normalizer, http, rootPageIds, controller>>

InitLife == InitWith(TRUE, TRUE, MaxCalls)
NextLife == Calls \/ clearCache \/ Extract
SpecLife == InitLife /\ [][NextLife]_vars

\* concurrent calls, a provider that never fails, no clearCache
InitConc == InitWith(FALSE, FALSE, MaxCalls)
SpecConc == InitConc /\ [][Calls]_vars

(***************************************************************************)
(* The remote hierarchy as a graph: what the properties compare the        *)
(* answers with.                                                           *)
(***************************************************************************)
RECURSIVE ChainFrom(_, _)
ChainFrom(x, seen) ==
    IF x = Null \/ x \in seen THEN seen
    ELSE ChainFrom(parent[x], seen \cup {x})

\* x and its ancestors
Up(x) == ChainFrom(x, {})

RootOnChain(x) == Up(x) \cap rootPageIds # {}

\* the chain of x ends at a resource without a parent
EndsAtTop(x) == \E y \in Up(x) : parent[y] = Null

\* x and its ancestors up to the first root
RECURSIVE ToRoot(_, _)
ToRoot(x, seen) ==
    IF x = Null \/ x \in seen THEN seen
    ELSE IF x \in rootPageIds THEN seen \cup {x}
    ELSE ToRoot(parent[x], seen \cup {x})

\* below the first root a database declares a database as its parent
DbInDb(x) ==
    \E y \in ToRoot(x, {}) :
        /\ y \notin rootPageIds
        /\ kind[y] = "database"
        /\ parent[y] # Null
        /\ kind[parent[y]] = "database"

PageRoots == isEnabled /\ \A r \in rootPageIds : kind[r] = "page"

\* call p has returned a value
Returned(p) == pc[p] = "done" /\ ~call[p].raised

(***************************************************************************)
(* C1, as claimed: in a sequential execution with no provider failure and  *)
(* page roots, isPageAllowed(x) returns true for every x whose parent      *)
(* chain reaches a root, and false for every x whose chain ends at a       *)
(* resource without a parent without reaching a root.                      *)
(***************************************************************************)
C1_AsClaimed ==
    PageRoots =>
        \A p \in Procs : Returned(p) =>
            /\ RootOnChain(call[p].id) => call[p].result
            /\ (EndsAtTop(call[p].id) /\ ~RootOnChain(call[p].id))
                   => ~call[p].result

(***************************************************************************)
(* C1, amended: in a sequential execution with no provider failure and     *)
(* page roots, isPageAllowed(x) returns true for every x whose parent      *)
(* chain reaches a root unless, below the first root, a database declares  *)
(* a database as its parent; in that case, and for every x whose chain     *)
(* ends at a resource without a parent without reaching a root, it returns *)
(* false.                                                                  *)
(***************************************************************************)
C1_ChainDecidesAnswer ==
    PageRoots =>
        \A p \in Procs : Returned(p) =>
            /\ (RootOnChain(call[p].id) /\ ~DbInDb(call[p].id))
                   => call[p].result
            /\ (RootOnChain(call[p].id) /\ DbInDb(call[p].id))
                   => ~call[p].result
            /\ (EndsAtTop(call[p].id) /\ ~RootOnChain(call[p].id))
                   => ~call[p].result

\* a database under a block under a root page has been answered true by a walk
C1_Witness ==
    /\ PageRoots
    /\ \E p \in Procs :
        /\ Returned(p) /\ call[p].how = "walk" /\ call[p].result
        /\ kind[call[p].id] = "database"
        /\ parent[call[p].id] # Null
        /\ kind[parent[call[p].id]] = "block"
        /\ parent[parent[call[p].id]] \in rootPageIds

(***************************************************************************)
(* C2: isPageAllowed returns true for every id of the root set, in every   *)
(* reachable state and without a provider call; with an empty root set it  *)
(* returns true for every input, malformed ones included, without a        *)
(* provider call and without a cache write.                                *)
(***************************************************************************)
C2_RootsAndDisabledAllowed ==
    /\ \A p \in Procs :
          (pc[p] = "done" /\ (call[p].id \in rootPageIds \/ ~isEnabled))
              => (~call[p].raised /\ call[p].result /\ call[p].n = 0)
    /\ ~isEnabled =>
          /\ pageCache = EmptyCache
          /\ \A p \in Procs : pc[p] \notin InFlight

\* a root is answered while the cache holds a denied entry and another call
\* is suspended on the provider
C2_Witness ==
    \E p, q \in Procs :
        /\ pc[p] = "done" /\ call[p].how = "root" /\ call[p].result
        /\ pc[q] = "walk"
        /\ \E x \in DOMAIN pageCache : ~pageCache[x].isAllowed

(***************************************************************************)
(* C3: fail closed.  With a non-empty root set, under every interleaving,  *)
(* provider failure and clearCache, isPageAllowed(x) returns true only if  *)
(* x is a root or has a root on its parent chain, and no cache entry has   *)
(* isAllowed = true for an id without a root on its chain.                 *)
(***************************************************************************)
C3_FailClosed ==
    isEnabled =>
        /\ \A p \in Procs :
              (Returned(p) /\ call[p].result) => RootOnChain(call[p].id)
        /\ \A x \in DOMAIN pageCache :
              pageCache[x].isAllowed => RootOnChain(x)

\* a provider failure has denied an id that has a root on its chain
C3_Witness ==
    \E p \in Procs :
        /\ Returned(p) /\ call[p].upstream /\ ~call[p].result
        /\ RootOnChain(call[p].id)
        /\ \E x \in DOMAIN pageCache : pageCache[x].isAllowed

(***************************************************************************)
(* C4: the root set may hold a resource of any kind.  In a sequential      *)
(* execution with no provider failure, isPageAllowed returns true for      *)
(* every page or block whose parent chain passes through a root that is a  *)
(* database or a block, also when that root's own parent is not a root.    *)
(***************************************************************************)
UnderNonPageRoot(x) ==
    \E r \in (Up(x) \cap rootPageIds) \ {x} : kind[r] # "page"

C4_RootsOfAnyKind ==
    \A p \in Procs :
        (/\ Returned(p)
         /\ call[p].id \in Ids
         /\ kind[call[p].id] \in {"page", "block"}
         /\ UnderNonPageRoot(call[p].id))
            => call[p].result

(***************************************************************************)
(* C5: with concurrent calls, a stable hierarchy and no provider failure,  *)
(* all isPageAllowed calls for the same id return the same answer, and     *)
(* with page roots it is the answer of a lone call: true exactly when a    *)
(* root lies on the chain (no database under a database below the root).   *)
(***************************************************************************)
C5_SameAnswer ==
    /\ \A p, q \in Procs :
          (Returned(p) /\ Returned(q) /\ call[p].id = call[q].id)
              => call[p].result = call[q].result
    /\ \A p \in Procs :
          (/\ Returned(p) /\ PageRoots
           /\ call[p].id \in Ids
           /\ ~DbInDb(call[p].id)
           /\ RootOnChain(call[p].id) \/ EndsAtTop(call[p].id))
              => call[p].result = RootOnChain(call[p].id)

(***************************************************************************)
(* C6: idempotence.  Once a sequential isPageAllowed(x) has returned for   *)
(* a well-formed x, every later isPageAllowed(x) with no clearCache in     *)
(* between returns the same value and issues no provider call; a first     *)
(* call for an uncached id that is not a root issues at least one.         *)
(***************************************************************************)
C6_Idempotent ==
    \A p \in Procs :
        Returned(p) =>
            /\ call[p].prior # "none" =>
                  /\ BoolStr(call[p].result) = call[p].prior
                  /\ call[p].n = 0
            /\ call[p].how \in {"walk", "notfound"} => call[p].n > 0

(***************************************************************************)
(* C7, as claimed: after isPageAllowed(X) has returned true from a walk,   *)
(* every resource crossed while resolving X's chain to the root, a block   *)
(* between X and the root page included, is answered true from the cache   *)
(* with no provider call.                                                  *)
(***************************************************************************)
C7_AsClaimed ==
    \A p \in Procs :
        (Returned(p) /\ call[p].priorCrossed)
            => (call[p].result /\ call[p].n = 0)

(***************************************************************************)
(* C7, amended: after isPageAllowed(X) has returned true from a walk, X    *)
(* and every page crossed while resolving X's chain to the root are        *)
(* answered true from the cache with no provider call; a block or database *)
(* crossed on the way that has not itself been queried has no cache entry  *)
(* and is answered true only after fresh provider calls.                   *)
(***************************************************************************)
C7_CrossedAnsweredTrue ==
    \A p \in Procs :
        (Returned(p) /\ call[p].priorCrossed) =>
            /\ call[p].result
            /\ (kind[call[p].id] = "page" \/ call[p].prior # "none")
                  => call[p].n = 0
            /\ (kind[call[p].id] # "page" /\ call[p].prior = "none"
                /\ call[p].id \notin rootPageIds)
                  => (call[p].n > 0 /\ call[p].how = "walk")

\* a block crossed by an earlier walk that returned true is answered true
\* after provider calls of its own
C7_Witness ==
    \E p \in Procs :
        /\ Returned(p) /\ call[p].priorCrossed /\ call[p].prior = "none"
        /\ kind[call[p].id] = "block"
        /\ parent[call[p].id] \in rootPageIds
        /\ call[p].result /\ call[p].n > 0

(***************************************************************************)
(* C8, as claimed: cycle safety.  When A lies on a parent cycle of pages   *)
(* with no root on it and the provider does not fail, isPageAllowed(A)     *)
(* issues a number of provider calls bounded by the length of the cycle    *)
(* (one per page of the cycle besides the page probe) and returns false.   *)
(***************************************************************************)
OnPageCycle(x) ==
    /\ x \in Ids
    /\ \A y \in Up(x) : kind[y] = "page" /\ parent[y] # Null
    /\ x \in Up(parent[x])
    /\ ~RootOnChain(x)

C8_AsClaimed ==
    \A p \in Procs :
        (pc[p] # "idle" /\ OnPageCycle(call[p].id)) =>
            /\ call[p].n <= Cardinality(Up(call[p].id)) + 1
            /\ pc[p] = "done" => (~call[p].raised /\ ~call[p].result)

(***************************************************************************)
(* C8, amended: cycle safety.  With a non-empty root set, when A lies on a *)
(* parent cycle of pages with no root on it and the provider does not      *)
(* fail, isPageAllowed(A) issues at most one provider call per page of the *)
(* cycle besides the page probe, returns, and its result is false; with an *)
(* empty root set it returns true at once, with no provider call.          *)
(***************************************************************************)
C8_CycleSafe ==
    /\ [](\A p \in Procs :
            (pc[p] # "idle" /\ OnPageCycle(call[p].id)) =>
                /\ call[p].n <= Cardinality(Up(call[p].id)) + 1
                /\ (pc[p] = "done" /\ isEnabled)
                      => (~call[p].raised /\ ~call[p].result)
                /\ (pc[p] = "done" /\ ~isEnabled)
                      => (~call[p].raised /\ call[p].result /\ call[p].n = 0))
    /\ \A p \in Procs :
          (pc[p] \in InFlight /\ OnPageCycle(call[p].id)) ~> (pc[p] = "done")

\* the walk went once round a cycle of two pages and returned false
C8_Witness ==
    \E p \in Procs :
        /\ isEnabled
        /\ Returned(p) /\ OnPageCycle(call[p].id)
        /\ Cardinality(Up(call[p].id)) = 2
        /\ call[p].how = "walk" /\ call[p].n = 3
        /\ call[p].visited = Up(call[p].id)
        /\ ~call[p].result

(***************************************************************************)
(* C9: when the provider fails while the walker fetches the parent of the  *)
(* current page, the call returns false without raising and the queried id *)
(* is cached as not allowed; later calls for the queried id return false   *)
(* from the cache, with no provider call, until clearCache.                *)
(***************************************************************************)
C9_FailureSticks ==
    \A p \in Procs :
        /\ (pc[p] = "done" /\ call[p].upstream) =>
              /\ ~call[p].raised /\ ~call[p].result
              /\ call[p].entry.present /\ ~call[p].entry.isAllowed
        /\ (Returned(p) /\ call[p].priorFailed) =>
              (~call[p].result /\ call[p].n = 0)

(***************************************************************************)
(* C10: when the page probe, the database probe and the block probe of a   *)
(* well-formed id that is not a root all fail or return null,              *)
(* isPageAllowed returns false without raising, caches                     *)
(* {parentId: null, isAllowed: false} for the id and runs no walk.         *)
(***************************************************************************)
C10_UnknownDenied ==
    \A p \in Procs :
        (pc[p] = "done" /\ call[p].how = "notfound") =>
            /\ ~call[p].raised /\ ~call[p].result
            /\ call[p].entry = Entry(Null, FALSE)
            /\ call[p].visited = {} /\ call[p].actual = Null
            /\ call[p].n >= 3

\* a database at the top of the workspace: no page, no parent page, no block
C10_Witness ==
    \E p \in Procs :
        /\ pc[p] = "done" /\ call[p].how = "notfound"
        /\ call[p].id \in Ids
        /\ kind[call[p].id] = "database" /\ parent[call[p].id] = Null
        /\ call[p].n = 3 /\ ~call[p].upstream
        /\ pageCache[call[p].id] = Entry(Null, FALSE)

(***************************************************************************)
(* C11: with a non-empty root set, isPageAllowed on a malformed id (not 32 *)
(* hexadecimal digits once hyphens are removed) raises before any cache    *)
(* lookup or provider call: it issues no provider call and the step that   *)
(* takes the malformed id leaves the cache unchanged.                      *)
(***************************************************************************)
C11_MalformedRaises ==
    /\ [](\A p \in Procs :
            (isEnabled /\ pc[p] # "idle" /\ call[p].malformed) =>
                (pc[p] = "done" /\ call[p].raised /\ call[p].n = 0))
    /\ [][\A p \in Procs :
            (isEnabled /\ call'[p] # call[p] /\ call'[p].malformed)
                => pageCache' = pageCache]_vars

(***************************************************************************)
(* C12: clearCache removes every cache entry and leaves the root set       *)
(* unchanged; the isPageAllowed that follows it, for an id that is not a   *)
(* root and was resolved before the clearCache, issues provider calls      *)
(* again instead of answering from the cache.                              *)
(***************************************************************************)
C12_ClearCacheForgets ==
    /\ [][clearCache =>
            (pageCache' = EmptyCache /\ rootPageIds' = rootPageIds)]_vars
    /\ [](\A p \in Procs :
            (Returned(p) /\ call[p].priorCleared
             /\ call[p].id \notin rootPageIds) =>
                (call[p].n > 0 /\ call[p].how \in {"walk", "notfound"}))

\* an id answered true from the cache before clearCache is walked again
C12_Witness ==
    \E p \in Procs :
        /\ Returned(p) /\ call[p].priorCleared
        /\ call[p].id \notin rootPageIds
        /\ call[p].how = "walk" /\ call[p].result /\ call[p].n >= 2
        /\ CacheHas(pageCache, call[p].id)

(***************************************************************************)
(* C13: the construction of the root set never aborts on a malformed       *)
(* entry.  For every source (explicit ids, explicit urls, environment ids, *)
(* environment urls) a malformed entry is skipped, and the root set holds  *)
(* exactly normalized forms of well-formed entries: all those of the lists *)
(* handed to the constructor, and nothing that is not the normalized form  *)
(* of a well-formed entry of some source.                                  *)
(***************************************************************************)
WellFormedIds(list) == {EntryId[e] : e \in {x \in Range(list) : ~Malformed(x)}}

C13_MalformedSkipped ==
    /\ boot.stage # "aborted"
    /\ boot.stage = "built" =>
          /\ WellFormedIds(boot.options.pageIds)
                 \cup UrlsOf(boot.options.pageUrls) \subseteq boot.roots
          /\ boot.roots \subseteq
                 WellFormedIds(argv.pageIds) \cup UrlsOf(argv.pageUrls)
                 \cup WellFormedIds(env.pageIds) \cup UrlsOf(env.pageUrls)

(***************************************************************************)
(* C14: ids and urls from the environment enter the root set only when the *)
(* explicit id list and the explicit url list are together empty: when the *)
(* command line gives any --page-id or --page-url entry, the root set of   *)
(* the constructed controller holds only ids of command line entries.      *)
(***************************************************************************)
C14_EnvironmentOnlyAsFallback ==
    (boot.stage = "built" /\ Len(argv.pageIds) + Len(argv.pageUrls) > 0) =>
        boot.roots \subseteq
            (IdsOf(argv.pageIds) \ {Throw}) \cup UrlsOf(argv.pageUrls)

(***************************************************************************)
(* C15: normalizePageId raises for every input that, with its hyphens      *)
(* removed and in lower case, is not exactly 32 hexadecimal digits (wrong  *)
(* length or a character that is no hexadecimal digit); for every other    *)
(* input it returns those 32 digits in lower case in the 8-4-4-4-12 form.  *)
(***************************************************************************)
CanonicalOf(id, raw) ==
    /\ Len(id) = 36
    /\ \A i \in {9, 14, 19, 24} : id[i] = "-"
    /\ RemoveHyphens(id) = LowerCase(RemoveHyphens(raw))

C15_NormalizeValidates ==
    normalizer.stage = "out" =>
        IF Malformed(normalizer.x)
        THEN normalizer.nx = Throw
        ELSE CanonicalOf(normalizer.nx, normalizer.x)

(***************************************************************************)
(* C16, as claimed: two identifiers that differ only in hyphenation and    *)
(* letter case normalize to the same canonical id, so do two urls that end *)
(* in them, and normalizePageId returns a canonical id unchanged.          *)
(***************************************************************************)
SameDigits(x, y) ==
    /\ ~Malformed(x)
    /\ LowerCase(RemoveHyphens(x)) = LowerCase(RemoveHyphens(y))

C16_AsClaimed ==
    (normalizer.stage = "out" /\ SameDigits(normalizer.x, normalizer.y)) =>
        /\ CanonicalOf(normalizer.nx, normalizer.x)
        /\ normalizer.ny = normalizer.nx
        /\ normalizer.nnx = normalizer.nx
        /\ normalizer.ux = normalizer.nx
        /\ normalizer.uy = normalizer.nx

(***************************************************************************)
(* C16, amended: two identifiers that differ only in hyphenation and       *)
(* letter case normalize to the same canonical id, and normalizePageId     *)
(* returns a canonical id unchanged.  A url yields that canonical id when  *)
(* it ends in the 32 digits without a hyphen among them or in their        *)
(* 8-4-4-4-12 form; a url that ends in any other hyphenation of them is    *)
(* rejected (extractPageIdFromUrl raises).                                 *)
(***************************************************************************)
UrlSpelling(x) ==
    LET n == Len(x)
        hyphens == {i \in 1..n : x[i] = "-"}
    IN  \/ \A i \in hyphens : i <= n - 32
        \/ /\ n >= 36
           /\ {i \in hyphens : i > n - 36} = {n - 27, n - 22, n - 17, n - 12}

C16_SpellingsAgree ==
    (normalizer.stage = "out" /\ SameDigits(normalizer.x, normalizer.y)) =>
        /\ CanonicalOf(normalizer.nx, normalizer.x)
        /\ normalizer.ny = normalizer.nx
        /\ normalizer.nnx = normalizer.nx
        /\ normalizer.ux = IF UrlSpelling(normalizer.x) THEN normalizer.nx
                           ELSE ThrowUrl
        /\ normalizer.uy = IF UrlSpelling(normalizer.y) THEN normalizer.nx
                           ELSE ThrowUrl

\* an upper-case hyphenated identifier and its unhyphenated lower-case
\* spelling, alone and at the end of a url, give one canonical id
C16_Witness ==
    /\ normalizer.stage = "out"
    /\ SameDigits(normalizer.x, normalizer.y)
    /\ Len(normalizer.x) = 36 /\ Len(normalizer.y) = 32
    /\ normalizer.x # LowerCase(normalizer.x)
    /\ normalizer.y = LowerCase(normalizer.y)
    /\ normalizer.ux = normalizer.nx /\ normalizer.uy = normalizer.nx
    /\ normalizer.ny = normalizer.nx /\ normalizer.nnx = normalizer.nx

\* the four rules of a request, in their order: is the rule tried on this
\* path, and the id it hands back if it is
RuleIds(path, params) ==
    LET has(part) == Includes(path, part)
        given(v) == v # Undefined /\ v # EmptyString
        pick(tried, v) == IF tried /\ given(v) THEN v ELSE Null
    IN  << pick(has(PagesSlash), params.page_id),
           pick(has(BlocksSlash), params.block_id),
           pick(has(DatabasesSlash) /\ has(Query), params.database_id),
           IF given(params.parent.page_id)
           THEN pick(has(Pages) /\ params.parent.present,
                     params.parent.page_id)
           ELSE pick(has(Pages) /\ params.parent.present,
                     params.parent.database_id) >>

\* C17: extractPageIdFromRequest tries its rules in the order pages, blocks,
\* database query, page creation (the parent's page_id before its
\* database_id) and returns the id of the first rule that yields one; it
\* returns null exactly when no rule yields an id; and it leaves the cache
\* and the root set as they were, whatever they hold.
C17_FirstRuleThatYields ==
    /\ [](request.stage = "out" =>
            LET ids == RuleIds(request.path, request.params)
                yielding == {i \in 1..4 : ids[i] # Null}
            IN  IF yielding = {}
                THEN request.result = Null
                ELSE /\ request.result # Null
                     /\ \E i \in yielding :
                            /\ request.result = ids[i]
                            /\ \A j \in yielding : i <= j)
    /\ [][request' # request => UNCHANGED <<pageCache, rootPageIds>>]_vars

\* a block path that also holds "/pages/", with a page_id and a block_id:
\* the page rule answers, on a controller with a root and a cache entry
C17_Witness ==
    /\ request.stage = "out"
    /\ Includes(request.path, PagesSlash)
    /\ Includes(request.path, BlocksSlash)
    /\ request.params.page_id = "page-1"
    /\ request.params.block_id = "block-1"
    /\ request.result = "page-1"
    /\ rootPageIds # {}
    /\ pageCache # EmptyCache

\* a step that handles a request: the transports map loses no session
RequestStep == DOMAIN http.transports \subseteq DOMAIN http'.transports

\* the answer to a request stopped before any handler, with this status
Stopped(status) ==
    /\ http.answer.status = status
    /\ http.answer.handler = "none"
    /\ ~http.answer.looked
    /\ http.answer.transport = NoTransport

\* what C18 asks of the answer to the /mcp and /health requests in `checked`
TokenGuards(checked) ==
    LET token == TokenOfHeader[http.req.authorization]
    IN  /\ (http.req \in checked /\ http.req.route = "/mcp") =>
              /\ http.answer.handler # "none" => token = http.authToken
              /\ ~Given(token) => Stopped(Unauthorized)
              /\ (Given(token) /\ token # http.authToken) => Stopped(Forbidden)
        /\ (http.req \in checked /\ http.req.route = "/health"
            /\ http.req.method = "GET") =>
              /\ http.answer.status = Ok
              /\ http.answer.handler = "health"

\* a request that was answered 401 or 403 has left the sessions as they were
RejectedChangesNothing ==
    (RequestStep /\ http'.answer.status \in {Unauthorized, Forbidden}) =>
        /\ http'.transports = http.transports
        /\ http'.created = http.created

\* C18 as claimed: every /mcp request reaches a handler only with the
\* configured token, is answered 401 with no token and 403 with another,
\* and then no session is created, looked up or modified; every GET /health
\* is answered 200.
C18_AsClaimed ==
    /\ [](TokenGuards(Requests))
    /\ [][RejectedChangesNothing]_vars

\* C18, amended: the same for every request whose body the JSON parser
\* accepts; a request whose body it rejects is answered 400 before the
\* token is looked at, and reaches no handler and no session either.
C18_TokenGuardsSessions ==
    /\ [](TokenGuards({req \in Requests : req.body # "malformed"}))
    /\ [](http.req.body = "malformed" => Stopped(BadRequest))
    /\ [][RejectedChangesNothing]_vars

\* a request that names a live session but carries another token than the
\* configured one: answered 403, the session not looked up
C18_Witness ==
    /\ http.req.route = "/mcp"
    /\ http.req.sessionId \in DOMAIN http.transports
    /\ Given(TokenOfHeader[http.req.authorization])
    /\ TokenOfHeader[http.req.authorization] # http.authToken
    /\ Stopped(Forbidden)

\* C19: in sequential behaviours, the entry of an id that an earlier call
\* has settled keeps its isAllowed for as long as it stays in the cache: the
\* walk of no later call writes another value over it.
C19_SettledNeverRevised ==
    [][\A x \in Ids :
          (/\ hist.settled[x] # "none"
           /\ CacheHas(pageCache, x)
           /\ CacheHas(pageCache', x))
          => pageCache'[x].isAllowed = pageCache[x].isAllowed]_vars

Issues(p) ==
    /\ pc'[p] \in InFlight
    /\ call'[p].n > 0
    /\ call'[p].n # call[p].n \/ pc[p] \notin InFlight

\* C21: no provider lookup is issued for an id that has a cache entry when
\* the lookup is issued, the ancestors met during a walk included.
C21_CacheBeforeLookup ==
    [][\A p \in Procs :
          Issues(p) => ~CacheHas(pageCache', call'[p].fetch.id)]_vars

\* the id string the code holds for a key of the cache or a member of the
\* root set: a resource's canonical id, or the normalized form of the one
\* raw input that names no resource
HeldString(k) == IF k \in Ids THEN CanonicalId[k] ELSE Normalized[NonHex]

\* 36 characters: lower-case hexadecimal digits in groups of 8, 4, 4, 4 and
\* 12, with a hyphen between groups
IsCanonical(s) ==
    /\ Len(s) = 36
    /\ \A i \in 1..Len(s) :
          IF i \in {9, 14, 19, 24} THEN s[i] = "-" ELSE s[i] \in HexDigits

HeldCanonical == [k \in Ids \cup {Null} |-> IsCanonical(HeldString(k))]

\* C22: every key of the cache and every member of the root set is a
\* canonical id (36 characters, lower-case hexadecimal, hyphenated 8-4-4-4-12),
\* and so is every id on which a call tests root-set membership.
C22_CanonicalKeys ==
    /\ \A k \in DOMAIN pageCache : HeldCanonical[k]
    /\ \A k \in rootPageIds : HeldCanonical[k]
    /\ \A p \in Procs : pc[p] \in InFlight => HeldCanonical[call[p].id]

\* C23: when a sequential isPageAllowed call that ran a hierarchy walk
\* returns, every page its walk visited has a cache entry whose isAllowed is
\* the call's result.
C23_VisitedAgreeWithResult ==
    [][\A p \in Procs :
          (pc[p] = "finish" /\ pc'[p] = "done") =>
              \A v \in call'[p].visited :
                  /\ CacheHas(pageCache', v)
                  /\ pageCache'[v].isAllowed = call'[p].result]_vars

\* a walk over two pages or more that ended in a failed lookup: the call
\* has returned false and every visited page is cached as denied
C23_Witness ==
    \E p \in Procs :
        /\ Returned(p) /\ call[p].how = "walk" /\ call[p].upstream
        /\ Cardinality(call[p].visited) >= 2
        /\ ~call[p].result
        /\ \A v \in call[p].visited :
              CacheHas(pageCache, v) /\ ~pageCache[v].isAllowed

\* no isPageAllowed call is in flight
Quiescent == \A p \in Procs : pc[p] \notin InFlight

\* C24 as claimed: whenever no call is in flight, with page roots and no
\* provider failure, every cache entry's isAllowed tells whether its id is a
\* root or has a root among its ancestors.
C24_AsClaimed ==
    (Quiescent /\ PageRoots) =>
        \A k \in DOMAIN pageCache \cap Ids :
            pageCache[k].isAllowed = RootOnChain(k)

\* C24, amended: the same, whatever the interleaving of the calls, for every
\* cached id but those with a database that declares a database as its
\* parent below the first root, whose entry denies.
C24_QuiescentConsistency ==
    (Quiescent /\ PageRoots) =>
        \A k \in DOMAIN pageCache \cap Ids :
            pageCache[k].isAllowed = (RootOnChain(k) /\ ~DbInDb(k))

\* two calls have overlapped: one was answered false from the provisional
\* entry of the other's walk, and at rest the entry of that id allows
C24_Witness ==
    /\ Quiescent /\ PageRoots
    /\ \E p, q \in Procs :
          /\ p # q /\ Returned(p) /\ Returned(q)
          /\ call[p].how = "cache" /\ ~call[p].result
          /\ call[q].how = "walk" /\ call[q].result
          /\ call[p].id = call[q].id
          /\ RootOnChain(call[p].id)
          /\ pageCache[call[p].id].isAllowed

\* Call p is suspended on a lookup of its walk that was issued before a
\* clearCache: the walk gave every page it visited before the current one an
\* entry in the step that issued the lookup, only clearCache removes
\* entries, and one of those entries is gone.
ClearedUnder(p) ==
    /\ pc[p] = "walk"
    /\ \E v \in call[p].visited \ {call[p].current} : ~CacheHas(pageCache, v)

\* C25: a call that was suspended on a provider lookup when clearCache ran
\* writes nothing into the cache when that lookup returns.
C25_NoWriteAfterClear ==
    [][\A p \in Procs :
          (ClearedUnder(p) /\ call'[p] # call[p]) => pageCache' = pageCache]_vars

\* C26: no step of isPageAllowed and its walks, of clearCache or of
\* extractPageIdFromRequest changes the root set, so isEnabled keeps its value.
C26_RootSetFixed ==
    [][/\ rootPageIds' = rootPageIds
       /\ (rootPageIds' # {}) = isEnabled]_vars

\* a walk has reached a root, clearCache has emptied the cache after it and
\* a request has been looked at: the root set still holds its root
C26_Witness ==
    /\ isEnabled
    /\ request.stage = "out" /\ request.result # Null
    /\ pageCache = EmptyCache
    /\ \E p \in Procs :
          Returned(p) /\ call[p].how = "walk" /\ call[p].result

\* the request of this step has reached its /mcp handler
Routed == RequestStep /\ http'.answer.handler \in {"post", "get", "delete"}

\* C27: session routing.  For the requests that reach the /mcp handlers: a
\* POST whose session id is a key of the transports map is handled by the
\* transport under that key; a transport is created only for a POST with no
\* session id and an initialize body; every other POST, and every GET or
\* DELETE whose session id is missing or no key of the map, is answered 400
\* and leaves the sessions as they were.
C27_SessionRouting ==
    [][Routed =>
        LET req == http'.req
            keyed == req.sessionId \in DOMAIN http.transports
            initial == req.sessionId = Undefined /\ req.body = "initialize"
        IN  /\ (req.method = "POST" /\ keyed) =>
                  http'.answer.transport = http.transports[req.sessionId]
            /\ http'.created # http.created =>
                  (req.method = "POST" /\ initial)
            /\ (~keyed /\ ~(req.method = "POST" /\ initial)) =>
                  /\ http'.answer.status = BadRequest
                  /\ http'.answer.transport = NoTransport
                  /\ http'.transports = http.transports
                  /\ http'.created = http.created]_vars

\* C28: session lifecycle.  A key of the transports map maps to the
\* transport that owns that session id, and no closed session is a key; the
\* request that initializes a session makes its id a key, and a key leaves
\* the map only when its transport closes; a request that reaches the /mcp
\* handlers with the id of a closed session is answered 400 and handled by
\* no transport.
C28_SessionLifecycle ==
    /\ [](\A sid \in DOMAIN http.transports :
            /\ http.transports[sid] \in 1..http.created
            /\ SessionIdOf(http.transports[sid]) = sid
            /\ sid \notin http.closed)
    /\ [][/\ http'.created # http.created =>
               (http'.answer.status = Ok
                    => SessionIdOf(http'.created) \in DOMAIN http'.transports)
          /\ DOMAIN http'.transports \ DOMAIN http.transports
                 \subseteq {SessionIdOf(http'.created)} \ http.closed
          /\ DOMAIN http.transports \ DOMAIN http'.transports
                 \subseteq http'.closed \ http.closed
          /\ (Routed /\ http'.req.sessionId \in http.closed) =>
                 /\ http'.answer.status = BadRequest
                 /\ http'.answer.transport = NoTransport]_vars

\* session-1 was initialized and its transport has closed while session-2
\* lives; a request with the configured token and the id session-1 has
\* reached its handler and has been answered 400
C28_Witness ==
    /\ "session-1" \in http.closed
    /\ "session-2" \in DOMAIN http.transports
    /\ http.req.sessionId = "session-1"
    /\ http.answer.handler \in {"post", "get", "delete"}
    /\ http.answer.status = BadRequest
    /\ http.answer.transport = NoTransport

=============================================================================
